---- MODULE Spec2Model ----
(***************************************************************************)
(* A model of the field-data pipeline (FieldDataProcessor) and of the      *)
(* free-text measurement extractor (extract_measurement).                  *)
(*                                                                         *)
(* Python's None is the empty sequence and a present value x is <<x>>.     *)
(* A table (pandas DataFrame) is [cols, rows]: the column labels in        *)
(* positional order and the rows, each a sequence of cells aligned with    *)
(* cols.  A cell is [tag, num, str]; the text of a cell is a sequence of   *)
(* chunks, each either the whitespace " " or a whitespace-free word.  A    *)
(* message given to the extractor is a sequence of characters.  The        *)
(* variables trace, ingested and fetched record what process() has called  *)
(* and what ingestion and the CSV fetch returned.                          *)
(***************************************************************************)
EXTENDS Integers, Sequences, FiniteSets, TLC

VARIABLES df, engine, pc, raised, trace, ingested, fetched,
          message, result, returned

vars == <<df, engine, pc, raised, trace, ingested, fetched,
          message, result, returned>>

pipelineVars == <<df, engine, pc, raised, trace, ingested, fetched>>

extractVars == <<message, result, returned>>

(***************************************************************************)
(* Bounds of the model.                                                    *)
(***************************************************************************)
MaxRows == 2

MaxMapRows == 2

MaxMsgLen == 4

(***************************************************************************)
(* Values.                                                                 *)
(***************************************************************************)
None == <<>>

Some(x) == <<x>>

NumCell(n) == [tag |-> "num", num |-> n, str |-> <<>>]

StrCell(s) == [tag |-> "str", num |-> 0, str |-> s]

NullCell == [tag |-> "null", num |-> 0, str |-> <<>>]

Range(s) == {s[i] : i \in DOMAIN s}

IsUnique(s) == \A i, j \in DOMAIN s : s[i] = s[j] => i = j

Last(s) == s[Len(s)]

RECURSIVE Flatten(_)
Flatten(ss) == IF ss = <<>> THEN <<>> ELSE Head(ss) \o Flatten(Tail(ss))

(***************************************************************************)
(* Table primitives (pandas).                                              *)
(***************************************************************************)
HasCol(t, name) == name \in Range(t.cols)

\* df[name]: the position of the column labelled name
ColIndex(t, name) == CHOOSE i \in DOMAIN t.cols : t.cols[i] = name

Column(t, name) == [r \in DOMAIN t.rows |-> t.rows[r][ColIndex(t, name)]]

\* df[name] = series: the data of one column replaced in place
SetColumn(t, name, series) ==
    [t EXCEPT !.rows = [r \in DOMAIN t.rows |->
        [t.rows[r] EXCEPT ![ColIndex(t, name)] = series[r]]]]

\* DataFrame.rename(columns=mapper): labels absent from the table are ignored
Rename(t, mapper) ==
    [t EXCEPT !.cols = [i \in DOMAIN t.cols |->
        IF t.cols[i] \in DOMAIN mapper THEN mapper[t.cols[i]] ELSE t.cols[i]]]

(***************************************************************************)
(* Configuration held by the orchestrator (set once in __init__).          *)
(***************************************************************************)
column1 == "Annual_yield"

column2 == "Crop_type"

values_to_rename ==
    (<<"cassaval">> :> <<"cassava">>) @@ (<<"wheatn">> :> <<"wheat">>)

column_name == "Crop_type"

abs_column == "Elevation"

merge_key == "Field_ID"

spurious_column == "Unnamed: 0"

(***************************************************************************)
(* rename_columns                                                          *)
(***************************************************************************)
\* a placeholder that is never probed against the table
TempNameUnprobed(cols, name) == name

RECURSIVE TempName(_, _)
TempName(cols, name) ==
    IF name \in cols THEN TempName(cols, name \o "_") ELSE name

\* {column1: temp_name, column2: column1}: the later key wins when equal
FirstMapper(temp_name) ==
    [l \in {column1, column2} |-> IF l = column2 THEN column1 ELSE temp_name]

rename_columns(t) ==
    LET temp_name == TempName(Range(t.cols), "__temp_name_for_swap__")
        step1 == Rename(t, FirstMapper(temp_name))
    IN  Rename(step1, [l \in {temp_name} |-> column2])

(***************************************************************************)
(* apply_corrections                                                       *)
(***************************************************************************)
AbsCell(c) ==
    IF c.tag = "num" THEN NumCell(IF c.num < 0 THEN -c.num ELSE c.num) ELSE c

\* values_to_rename.get(crop, crop)
LookupCell(c) ==
    IF c.tag = "str" /\ c.str \in DOMAIN values_to_rename
    THEN StrCell(values_to_rename[c.str]) ELSE c

RECURSIVE LStrip(_)
LStrip(s) == IF s # <<>> /\ Head(s) = " " THEN LStrip(Tail(s)) ELSE s

RECURSIVE RStrip(_)
RStrip(s) ==
    IF s # <<>> /\ Last(s) = " " THEN RStrip(SubSeq(s, 1, Len(s) - 1)) ELSE s

Strip(s) == RStrip(LStrip(s))

\* Series.str.strip(): a cell that is no string becomes null
StripCell(c) == IF c.tag = "str" THEN StrCell(Strip(c.str)) ELSE NullCell

\* the .str accessor exists only on a column that holds strings
IsStringColumn(t, name) ==
    \E r \in DOMAIN t.rows : t.rows[r][ColIndex(t, name)].tag = "str"

\* Series.abs()
SeriesAbs(series) == [r \in DOMAIN series |-> AbsCell(series[r])]

\* Series.apply(lambda crop: self.values_to_rename.get(crop, crop))
SeriesLookup(series) == [r \in DOMAIN series |-> LookupCell(series[r])]

\* Series.str.strip()
SeriesStrip(series) == [r \in DOMAIN series |-> StripCell(series[r])]

apply_corrections(t) ==
    IF ~HasCol(t, abs_column) THEN [err |-> "KeyError", df |-> t]
    ELSE IF IsStringColumn(t, abs_column) THEN [err |-> "TypeError", df |-> t]
    ELSE LET a == SetColumn(t, abs_column, SeriesAbs(Column(t, abs_column))) IN
    IF ~HasCol(a, column_name) THEN [err |-> "KeyError", df |-> a]
    ELSE LET b == SetColumn(a, column_name, SeriesLookup(Column(a, column_name))) IN
    IF ~IsStringColumn(b, column_name) THEN [err |-> "AttributeError", df |-> b]
    ELSE [err |-> "",
          df |-> SetColumn(b, column_name, SeriesStrip(Column(b, column_name)))]

(***************************************************************************)
(* weather_station_mapping: df.merge(mapping, on="Field_ID", how="left")   *)
(***************************************************************************)
\* an inner join: primary rows without a match are lost
JoinRowInner(lrow, matches, width) == [j \in DOMAIN matches |-> lrow \o matches[j]]

\* the rows a primary row yields: one per matching mapping row, or one
\* null-filled row when nothing matches
JoinRow(lrow, matches, width) ==
    IF matches = <<>> THEN << lrow \o [k \in 1..width |-> NullCell] >>
    ELSE [j \in DOMAIN matches |-> lrow \o matches[j]]

merge_left(l, r, key) ==
    IF ~HasCol(l, key) \/ ~HasCol(r, key) THEN [err |-> "KeyError", df |-> l]
    ELSE
    LET overlap == (Range(l.cols) \cap Range(r.cols)) \ {key}
        lk == ColIndex(l, key)
        rk == ColIndex(r, key)
        keep == SelectSeq([i \in DOMAIN r.cols |-> i], LAMBDA i : i # rk)
        lcols == [i \in DOMAIN l.cols |->
                    IF l.cols[i] \in overlap THEN l.cols[i] \o "_x" ELSE l.cols[i]]
        rcols == [k \in DOMAIN keep |->
                    IF r.cols[keep[k]] \in overlap
                    THEN r.cols[keep[k]] \o "_y" ELSE r.cols[keep[k]]]
        attrs(rrow) == [k \in DOMAIN keep |-> rrow[keep[k]]]
        matching(lrow) == SelectSeq(r.rows, LAMBDA rrow : rrow[rk] = lrow[lk])
        joined(lrow) ==
            LET m == matching(lrow)
            IN  JoinRow(lrow, [j \in DOMAIN m |-> attrs(m[j])], Len(keep))
    IN  [err |-> "",
         df  |-> [cols |-> lcols \o rcols,
                  rows |-> Flatten([i \in DOMAIN l.rows |-> joined(l.rows[i])])]]

(***************************************************************************)
(* df.drop(columns="Unnamed: 0")                                           *)
(***************************************************************************)
drop_column(t, name) ==
    IF ~HasCol(t, name) THEN [err |-> "KeyError", df |-> t]
    ELSE LET keep == SelectSeq([i \in DOMAIN t.cols |-> i],
                               LAMBDA i : t.cols[i] # name)
         IN  [err |-> "",
              df  |-> [cols |-> [k \in DOMAIN keep |-> t.cols[keep[k]]],
                       rows |-> [r \in DOMAIN t.rows |->
                                   [k \in DOMAIN keep |-> t.rows[r][keep[k]]]]]]

(***************************************************************************)
(* data_ingestion: create_db_engine, query_data, read_from_web_CSV.  The   *)
(* database and the web are the environment: their answers are inputs.     *)
(***************************************************************************)
create_db_engine(answer) ==
    IF answer = "ok" THEN [err |-> "", engine |-> Some("engine")]
    ELSE [err |-> "ArgumentError", engine |-> None]

\* an empty result is returned like any other
query_data_unchecked(answer) ==
    IF answer.err # "" THEN [err |-> answer.err, df |-> None]
    ELSE [err |-> "", df |-> Some(answer.table)]

query_data(answer) ==
    IF answer.err # "" THEN [err |-> answer.err, df |-> None]
    ELSE IF answer.table.rows = <<>> THEN [err |-> "ValueError", df |-> None]
    ELSE [err |-> "", df |-> Some(answer.table)]

read_from_web_CSV(answer) ==
    IF answer.err # "" THEN [err |-> answer.err, df |-> None]
    ELSE [err |-> "", df |-> Some(answer.table)]

\* ingest_sql_data: self.engine is assigned before the query runs
ingest_sql_data(engineAnswer, queryAnswer) ==
    LET e == create_db_engine(engineAnswer) IN
    IF e.err # "" THEN [err |-> e.err, engine |-> None, df |-> None]
    ELSE LET q == query_data(queryAnswer)
         IN  [err |-> q.err, engine |-> e.engine, df |-> q.df]

(***************************************************************************)
(* The environment's answers.                                              *)
(***************************************************************************)
SeqsUpTo(S, n) == UNION {[1..k -> S] : k \in 0..n}

\* a table from full-width rows: a label "-" leaves that column out
MakeTable(labels, rows) ==
    LET keep == SelectSeq([i \in DOMAIN labels |-> i],
                          LAMBDA i : labels[i] # "-")
    IN  [cols |-> [k \in DOMAIN keep |-> labels[keep[k]]],
         rows |-> [r \in DOMAIN rows |-> [k \in DOMAIN keep |-> rows[r][keep[k]]]]]

\* Field_ID, Elevation, crop name, yield, two further columns
PrimaryRows ==
    { <<NumCell(1), NumCell(-3), StrCell(<<" ", "cassaval", " ">>),
        NumCell(7), NumCell(8), NumCell(9)>>,
      <<NumCell(2), NumCell(4), StrCell(<<" ", "maize", " ">>),
        NumCell(6), NumCell(8), NumCell(9)>>,
      <<NumCell(1), NumCell(4), StrCell(<<"cassaval">>),
        NumCell(7), NumCell(8), NumCell(9)>>,
      <<NumCell(3), NumCell(-3), StrCell(<<"tea">>),
        NumCell(6), NumCell(8), NumCell(9)>> }

PrimaryLayouts ==
    { <<"Field_ID", "Elevation", "Annual_yield", "Crop_type", "-", "-">>,
      <<"Field_ID", "Elevation", "Annual_yield", "Crop_type",
        "__temp_name_for_swap__", "-">>,
      <<"Field_ID", "Elevation", "Annual_yield", "Crop_type",
        "__temp_name_for_swap__", "__temp_name_for_swap___">>,
      <<"Field_ID", "Elevation", "Annual_yield", "-", "-", "-">>,
      <<"Field_ID", "Elevation", "-", "Crop_type", "-", "-">>,
      <<"Field_ID", "Elevation", "-", "-", "-", "-">>,
      <<"Field_ID", "-", "Annual_yield", "Crop_type", "-", "-">>,
      <<"-", "Elevation", "Annual_yield", "Crop_type", "-", "-">>,
      <<"Field_ID", "Elevation", "Annual_yield", "Crop_type", "Unnamed: 0", "-">>,
      <<"Field_ID", "Elevation", "Crop_type", "Annual_yield", "-", "-">>,
      <<"Field_ID", "Crop_type", "Elevation", "Annual_yield", "-", "-">> }

PrimaryTables ==
    {MakeTable(l, rs) : l \in PrimaryLayouts, rs \in SeqsUpTo(PrimaryRows, MaxRows)}

EmptyTable == [cols |-> <<>>, rows |-> <<>>]

EngineAnswers == {"ok", "invalid"}

QueryAnswers ==
    {[err |-> "", table |-> t] : t \in PrimaryTables}
        \cup {[err |-> "OperationalError", table |-> EmptyTable]}

\* index written by the exporter, Field_ID, weather station
MappingRows ==
    { <<NumCell(0), NumCell(1), StrCell(<<"station", "A">>)>>,
      <<NumCell(1), NumCell(2), StrCell(<<"station", "B">>)>>,
      <<NumCell(2), NumCell(1), StrCell(<<"station", "C">>)>> }

MappingLayouts ==
    { <<"Unnamed: 0", "Field_ID", "Weather_station">>,
      <<"Unnamed: 0", "-", "Weather_station">>,
      <<"-", "Field_ID", "Weather_station">>,
      <<"Unnamed: 0", "Field_ID", "Elevation">> }

MappingTables ==
    {MakeTable(l, rs) : l \in MappingLayouts, rs \in SeqsUpTo(MappingRows, MaxMapRows)}

FetchAnswers ==
    {[err |-> "", table |-> t] : t \in MappingTables}
        \cup {[err |-> e, table |-> EmptyTable] : e \in {"EmptyDataError", "URLError"}}


(***************************************************************************)
(* weather_data_processor: the pattern rule set and extract_measurement.   *)
(* A message is a sequence of characters.  A match is [ok, groups, from,   *)
(* to]: the capture groups (None when a group took no part) and the        *)
(* positions of the first and last character of the captured number.       *)
(***************************************************************************)
Digits == {"0", "1", "2", "3", "4", "5", "6", "7", "8", "9"}

IsDigit(c) == c \in Digits

IsSpace(c) == c \in {" "}

NoMatch == [ok |-> FALSE, groups |-> <<>>, from |-> 0, to |-> 0]

\* \d*: the position after the longest run of digits starting at i
RECURSIVE DigitsEnd(_, _)
DigitsEnd(s, i) ==
    IF i <= Len(s) /\ IsDigit(s[i]) THEN DigitsEnd(s, i + 1) ELSE i

\* \s*: the position after the longest run of whitespace starting at i
RECURSIVE SpacesEnd(_, _)
SpacesEnd(s, i) ==
    IF i <= Len(s) /\ IsSpace(s[i]) THEN SpacesEnd(s, i + 1) ELSE i

LiteralAt(s, i, lit) ==
    /\ i + Len(lit) - 1 <= Len(s)
    /\ SubSeq(s, i, i + Len(lit) - 1) = lit

\* (\d+(\.\d+)?) at i, after an optional sign when signed: the two groups
NumberAt(s, i, signed) ==
    LET d == IF signed /\ i <= Len(s) /\ s[i] = "-" THEN i + 1 ELSE i
        e == DigitsEnd(s, d)
        f == IF e <= Len(s) /\ s[e] = "." THEN DigitsEnd(s, e + 1) ELSE e
        hasFraction == f > e + 1
        to == IF hasFraction THEN f - 1 ELSE e - 1
    IN  IF e = d THEN NoMatch
        ELSE [ok |-> TRUE,
              groups |-> << Some(SubSeq(s, i, to)),
                            IF hasFraction THEN Some(SubSeq(s, e, to)) ELSE None >>,
              from |-> i, to |-> to]

\* (\d+(\.\d+)?)\s?<unit> at i
UnitRuleAt(s, i, unit) ==
    LET n == NumberAt(s, i, FALSE)
        after == n.to + 1
        spaced == after <= Len(s) /\ IsSpace(s[after])
    IN  IF ~n.ok THEN NoMatch
        ELSE IF (spaced /\ LiteralAt(s, after + 1, unit)) \/ LiteralAt(s, after, unit)
        THEN n ELSE NoMatch

\* <prefix>\s*(-?\d+(\.\d+)?) at i
PrefixRuleAt(s, i, prefix) ==
    IF LiteralAt(s, i, prefix)
    THEN NumberAt(s, SpacesEnd(s, i + Len(prefix)), TRUE)
    ELSE NoMatch

\* =\s*(-?\d+(\.\d+)?)|Pollution at \s*(-?\d+(\.\d+)?) at i: four groups
PollutionAt(s, i) ==
    LET a == PrefixRuleAt(s, i, <<"=">>)
        b == PrefixRuleAt(s, i, <<"P", "o", "l", "l", "u", "t", "i", "o", "n",
                                  " ", "a", "t", " ">>)
    IN  IF a.ok THEN [a EXCEPT !.groups = a.groups \o <<None, None>>]
        ELSE IF b.ok THEN [b EXCEPT !.groups = <<None, None>> \o b.groups]
        ELSE NoMatch

RuleAt(key, s, i) ==
    CASE key = "Rainfall" -> UnitRuleAt(s, i, <<"m", "m">>)
      [] key = "Temperature" -> UnitRuleAt(s, i, <<"C">>)
      [] key = "Pollution_level" -> PollutionAt(s, i)

\* re.search: the match at the leftmost position where the pattern matches
RECURSIVE SearchFrom(_, _, _)
SearchFrom(key, s, i) ==
    IF i > Len(s) THEN NoMatch
    ELSE IF RuleAt(key, s, i).ok THEN RuleAt(key, s, i)
    ELSE SearchFrom(key, s, i + 1)

Search(key, s) == SearchFrom(key, s, 1)

\* the rules tried with Temperature first
patterns_reordered == <<"Temperature", "Rainfall", "Pollution_level">>

\* the keys of the patterns dict, in insertion order
patterns == <<"Rainfall", "Temperature", "Pollution_level">>

\* the last group of the match, absent or not
LastGroup(groups) == groups[Len(groups)]

\* next(x for x in match.groups() if x is not None)
FirstGroup(groups) ==
    groups[CHOOSE i \in DOMAIN groups :
             groups[i] # None /\ \A j \in 1..(i - 1) : groups[j] = None]

DigitVal(c) ==
    CASE c = "0" -> 0 [] c = "1" -> 1 [] c = "2" -> 2 [] c = "3" -> 3
      [] c = "4" -> 4 [] c = "5" -> 5 [] c = "6" -> 6 [] c = "7" -> 7
      [] c = "8" -> 8 [] c = "9" -> 9

RECURSIVE DigitsVal(_)
DigitsVal(ds) ==
    IF ds = <<>> THEN 0
    ELSE 10 * DigitsVal(SubSeq(ds, 1, Len(ds) - 1)) + DigitVal(Last(ds))

\* a decimal num / 10^exp without trailing zeros in the fraction
RECURSIVE Normal(_, _)
Normal(num, exp) ==
    IF exp > 0 /\ num % 10 = 0 THEN Normal(num \div 10, exp - 1)
    ELSE [num |-> num, exp |-> exp]

\* float(x): the decimal the text denotes; a TypeError for None and a
\* ValueError for text that is no number
float(x) ==
    IF x = None THEN [err |-> "TypeError", val |-> Normal(0, 0)]
    ELSE
    LET t == x[1]
        neg == t # <<>> /\ Head(t) = "-"
        body == IF t # <<>> /\ Head(t) \in {"-", "+"} THEN Tail(t) ELSE t
        e == DigitsEnd(body, 1)
        dotted == e <= Len(body) /\ body[e] = "."
        f == IF dotted THEN DigitsEnd(body, e + 1) ELSE e
        int == SubSeq(body, 1, e - 1)
        frac == IF dotted THEN SubSeq(body, e + 1, f - 1) ELSE <<>>
        mag == DigitsVal(int \o frac)
    IN  IF f <= Len(body) \/ int \o frac = <<>>
        THEN [err |-> "ValueError", val |-> Normal(0, 0)]
        ELSE [err |-> "", val |-> Normal(IF neg THEN -mag ELSE mag, Len(frac))]

RECURSIVE TryRules(_, _)
TryRules(keys, s) ==
    IF keys = <<>> THEN [kind |-> None, value |-> None, err |-> ""]
    ELSE LET m == Search(Head(keys), s) IN
         IF m.ok
         THEN LET v == float(FirstGroup(m.groups)) IN
              IF v.err # "" THEN [kind |-> None, value |-> None, err |-> v.err]
              ELSE [kind |-> Some(Head(keys)), value |-> Some(v.val), err |-> ""]
         ELSE TryRules(Tail(keys), s)

extract_measurement(s) == TryRules(patterns, s)

\* the pieces messages are put together from
Fragments ==
    { <<"1">>, <<"2">>, <<".">>, <<"-">>, <<" ">>, <<"m", "m">>, <<"C">>,
      <<"=">>, <<"x">>,
      <<"P", "o", "l", "l", "u", "t", "i", "o", "n", " ", "a", "t", " ">> }

Messages == {Flatten(fs) : fs \in SeqsUpTo(Fragments, MaxMsgLen)}

(***************************************************************************)
(* process(): the stages in the order the method calls them.               *)
(***************************************************************************)
\* the correction called before the swap
process_order_swapped == <<"ingest", "correct", "rename", "merge", "drop">>

process_order == <<"ingest", "rename", "correct", "merge", "drop">>

StageAfter(stage) ==
    LET i == CHOOSE k \in DOMAIN process_order : process_order[k] = stage
    IN  IF i = Len(process_order) THEN "done" ELSE process_order[i + 1]

\* an exception leaves process(); nothing catches it
Continue(stage, err) == IF err = "" THEN StageAfter(stage) ELSE "failed"

Init ==
    /\ df = None
    /\ engine = None
    /\ pc = process_order[1]
    /\ raised = ""
    /\ trace = <<>>
    /\ ingested = None
    /\ fetched = None
    /\ message = <<>>
    /\ result = [kind |-> None, value |-> None, err |-> ""]
    /\ returned = FALSE

IngestSqlData ==
    /\ pc = "ingest"
    /\ \E ea \in EngineAnswers, qa \in QueryAnswers :
         LET r == ingest_sql_data(ea, qa) IN
         /\ engine' = r.engine
         /\ df' = r.df
         /\ ingested' = r.df
         /\ raised' = r.err
         /\ pc' = Continue("ingest", r.err)
    /\ trace' = Append(trace, "ingest")
    /\ UNCHANGED <<fetched, extractVars>>

RenameColumns ==
    /\ pc = "rename"
    /\ df' = Some(rename_columns(df[1]))
    /\ pc' = Continue("rename", "")
    /\ trace' = Append(trace, "rename")
    /\ UNCHANGED <<engine, raised, ingested, fetched, extractVars>>

ApplyCorrections ==
    /\ pc = "correct"
    /\ LET r == apply_corrections(df[1]) IN
         /\ df' = Some(r.df)
         /\ raised' = r.err
         /\ pc' = Continue("correct", r.err)
    /\ trace' = Append(trace, "correct")
    /\ UNCHANGED <<engine, ingested, fetched, extractVars>>

WeatherStationMapping ==
    /\ pc = "merge"
    /\ \E fa \in FetchAnswers :
         LET f == read_from_web_CSV(fa) IN
         /\ fetched' = f.df
         /\ IF f.err # ""
            THEN /\ df' = df
                 /\ raised' = f.err
                 /\ pc' = Continue("merge", f.err)
            ELSE LET r == merge_left(df[1], f.df[1], merge_key) IN
                 /\ df' = Some(r.df)
                 /\ raised' = r.err
                 /\ pc' = Continue("merge", r.err)
    /\ trace' = Append(trace, "merge")
    /\ UNCHANGED <<engine, ingested, extractVars>>

DropSpurious ==
    /\ pc = "drop"
    /\ LET r == drop_column(df[1], spurious_column) IN
         /\ df' = Some(r.df)
         /\ raised' = r.err
         /\ pc' = Continue("drop", r.err)
    /\ trace' = Append(trace, "drop")
    /\ UNCHANGED <<engine, ingested, fetched, extractVars>>

Next ==
    \/ IngestSqlData
    \/ RenameColumns
    \/ ApplyCorrections
    \/ WeatherStationMapping
    \/ DropSpurious

Spec == Init /\ [][Next]_vars

\* the pipeline object is constructed and idle; a message awaits extraction
InitExtract ==
    /\ df = None
    /\ engine = None
    /\ pc = "idle"
    /\ raised = ""
    /\ trace = <<>>
    /\ ingested = None
    /\ fetched = None
    /\ message \in Messages
    /\ result = [kind |-> None, value |-> None, err |-> ""]
    /\ returned = FALSE

\* one row of weather_station_df['Message'].apply(extract_measurement)
ExtractMeasurement ==
    /\ ~returned
    /\ result' = extract_measurement(message)
    /\ returned' = TRUE
    /\ UNCHANGED <<message, pipelineVars>>

NextExtract == ExtractMeasurement

SpecExtract == InitExtract /\ [][NextExtract]_vars

(***************************************************************************)
(* Properties of the pipeline (specification Spec).                        *)
(***************************************************************************)
DeclaredOrder == <<"ingest", "rename", "correct", "merge", "drop">>

IsPrefix(a, b) == Len(a) <= Len(b) /\ SubSeq(b, 1, Len(a)) = a

\* the code's categorical correction of one cell: lookup, then strip
CorrectedCell(c) == StripCell(LookupCell(c))

BothNamesIngested ==
    ingested # None /\ HasCol(ingested[1], column1) /\ HasCol(ingested[1], column2)

StagesInOrder ==
    /\ IsPrefix(trace, DeclaredOrder)
    /\ (pc = "failed") <=> (raised # "")
    /\ pc = "failed" => trace # <<>>
    /\ pc = "done" => trace = DeclaredOrder
    /\ pc \notin {"failed", "done"} => pc = DeclaredOrder[Len(trace) + 1]

CorrectionAfterSwap ==
    (pc = "merge" /\ HasCol(ingested[1], column1)) =>
        \A r \in DOMAIN df[1].rows :
            /\ df[1].rows[r][ColIndex(df[1], column_name)]
                 = CorrectedCell(ingested[1].rows[r][ColIndex(ingested[1], column1)])
            /\ HasCol(ingested[1], column2) =>
                 df[1].rows[r][ColIndex(df[1], column1)]
                   = ingested[1].rows[r][ColIndex(ingested[1], column2)]

\* C1: process() runs ingest, swap, correction, merge and drop in this fixed
\* order, each at most once; a failing stage ends the run with its failure
\* raised to the caller and no later stage executed; the correction acts on
\* the column labelled Crop_type after the swap (the data ingested under
\* Annual_yield), and the data ingested under Crop_type is left uncorrected.
C1_FixedStageOrder ==
    /\ [](StagesInOrder /\ CorrectionAfterSwap)
    /\ [][(pc \in {"failed", "done"}) => (vars' = vars)]_vars
    /\ [][trace' # trace => (Len(trace') = Len(trace) + 1
                              /\ Last(trace') = pc /\ Last(trace') \notin Range(trace))]_vars

C1_Witness ==
    /\ pc = "done"
    /\ trace = DeclaredOrder
    /\ raised = ""
    /\ BothNamesIngested
    /\ \E r \in DOMAIN df[1].rows :
         df[1].rows[r][ColIndex(df[1], column_name)] = StrCell(<<"cassava">>)

SwapLabel(l) ==
    IF l = column1 THEN column2 ELSE IF l = column2 THEN column1 ELSE l

\* C2: on a table holding both configured names (also one that already has
\* columns named __temp_name_for_swap__ plus underscores), rename_columns
\* exchanges the two labels and nothing else: every other label, every
\* column's data position and the rows are unchanged, the names stay unique,
\* and a second rename_columns restores the table.
C2_PureLabelSwap ==
    (pc = "correct" /\ BothNamesIngested) =>
        LET before == ingested[1]
            after == df[1]
        IN  /\ DOMAIN after.cols = DOMAIN before.cols
            /\ \A i \in DOMAIN before.cols : after.cols[i] = SwapLabel(before.cols[i])
            /\ after.rows = before.rows
            /\ Column(after, column2) = Column(before, column1)
            /\ Column(after, column1) = Column(before, column2)
            /\ IsUnique(after.cols)
            /\ rename_columns(after) = before

C2_Witness ==
    /\ pc = "correct"
    /\ BothNamesIngested
    /\ HasCol(df[1], "__temp_name_for_swap__")
    /\ HasCol(df[1], "__temp_name_for_swap___")
    /\ df # ingested

\* C3: when either configured name is absent from the working table,
\* rename_columns fails with a missing-column error (KeyError) and leaves
\* the working table as it was.
C3_MissingColumnFails ==
    (Len(trace) >= 2 /\ trace[2] = "rename"
        /\ (~HasCol(ingested[1], column1) \/ ~HasCol(ingested[1], column2)))
    => (pc = "failed" /\ raised = "KeyError" /\ Last(trace) = "rename"
          /\ df = ingested)

TrimThenLookup(c) ==
    LET t == Strip(c.str)
    IN  IF t \in DOMAIN values_to_rename
        THEN StrCell(values_to_rename[t]) ELSE StrCell(t)

\* C4: after apply_corrections every string cell of the Crop_type column
\* equals CorrectionMap[trim(cell)] when trim(cell) is a key of the
\* Correction Map and trim(cell) otherwise (" cassaval " becomes "cassava",
\* " maize " becomes "maize").
C4_TrimThenLookup ==
    pc = "merge" =>
        LET i == ColIndex(df[1], column_name)
        IN  \A r \in DOMAIN df[1].rows :
                ingested[1].rows[r][i].tag = "str" =>
                    df[1].rows[r][i] = TrimThenLookup(ingested[1].rows[r][i])

MergeSucceeds == pc = "merge" /\ pc' # "failed"

\* one output row per primary row, in order; matched rows carry the mapping
\* row's attributes, unmatched rows carry nulls
OneRowPerPrimaryRow(l, m, out) ==
    LET lk == ColIndex(l, merge_key)
        mk == ColIndex(m, merge_key)
        w == Len(l.cols)
        attrIdx == SelectSeq([i \in DOMAIN m.cols |-> i], LAMBDA i : i # mk)
        attrs(mrow) == [k \in DOMAIN attrIdx |-> mrow[attrIdx[k]]]
    IN  /\ Len(out.rows) = Len(l.rows)
        /\ \A i \in DOMAIN l.rows :
             /\ Len(out.rows[i]) = w + Len(attrIdx)
             /\ SubSeq(out.rows[i], 1, w) = l.rows[i]
             /\ \A j \in DOMAIN m.rows :
                  m.rows[j][mk] = l.rows[i][lk] =>
                      SubSeq(out.rows[i], w + 1, w + Len(attrIdx)) = attrs(m.rows[j])
             /\ (\A j \in DOMAIN m.rows : m.rows[j][mk] # l.rows[i][lk]) =>
                  \A k \in (w + 1)..(w + Len(attrIdx)) : out.rows[i][k] = NullCell

\* C5 as stated: for every primary table and every fetched Mapping Table
\* that both have Field_ID, the merge returns exactly one row per primary
\* row, in order, with the mapping row's attributes on a match and nulls
\* otherwise.
C5_OneRowForEveryMapping ==
    [][MergeSucceeds => OneRowPerPrimaryRow(df[1], fetched'[1], df'[1])]_vars

\* C5 amended: the same, for every fetched Mapping Table whose Field_ID
\* values are pairwise distinct.
C5_OneRowForUniqueKeys ==
    [][(MergeSucceeds /\ IsUnique(Column(fetched'[1], merge_key)))
          => OneRowPerPrimaryRow(df[1], fetched'[1], df'[1])]_vars

C5_Witness ==
    /\ pc = "drop"
    /\ IsUnique(Column(fetched[1], merge_key))
    /\ Len(fetched[1].rows) = 2
    /\ \E r1, r2 \in DOMAIN df[1].rows :
         /\ Last(df[1].rows[r1]) = NullCell
         /\ Last(df[1].rows[r2]) = StrCell(<<"station", "B">>)

\* C9: after a stage of process() fails, the working table is not a
\* partially transformed table: it holds neither the effects of only some
\* of the transforming stages nor of only some sub-operations of a stage.
C9_NoPartialCommit == pc = "failed" => (df = None \/ df = ingested)

IngestReturnedOk == trace # <<>> /\ ~(pc = "failed" /\ Len(trace) = 1)

\* C10 as stated: df and engine are both absent in every state in which
\* ingest_sql_data has not returned successfully (also after the engine was
\* created and the query failed or came back empty); after a successful
\* ingestion both are present and df has at least one row.
C10_BothAbsentUntilIngested ==
    IF IngestReturnedOk
    THEN df # None /\ engine # None /\ Len(df[1].rows) >= 1
    ELSE df = None /\ engine = None

\* C10 amended: df is absent in every state in which ingest_sql_data has
\* not returned successfully; engine is absent until create_db_engine has
\* succeeded, and stays present (with df absent) when the query then fails
\* or comes back empty; after a successful ingestion both are present and
\* df has at least one row.
C10_AbsentUntilAssigned ==
    /\ ~IngestReturnedOk => df = None
    /\ trace = <<>> => engine = None
    /\ (pc = "failed" /\ Len(trace) = 1) =>
          (engine = None <=> raised = "ArgumentError")
    /\ IngestReturnedOk =>
          (df # None /\ engine # None /\ ingested # None
             /\ Len(ingested[1].rows) >= 1 /\ Len(df[1].rows) >= 1)

C10_Witness ==
    /\ pc = "failed"
    /\ trace = <<"ingest">>
    /\ raised = "ValueError"
    /\ engine # None
    /\ df = None

(***************************************************************************)
(* Properties of the extractor (specification SpecExtract).                *)
(***************************************************************************)
DeclaredKinds == <<"Rainfall", "Temperature", "Pollution_level">>

Matches(key) == Search(key, message).ok

NoRuleMatches == \A k \in DOMAIN DeclaredKinds : ~Matches(DeclaredKinds[k])

\* C6: the rules are tried in the order Rainfall, Temperature,
\* Pollution_level and the first that matches anywhere in the message gives
\* the kind, also when a later rule matches too; the value is the whole
\* number that rule captured, not its fractional sub-group.
C6_FirstRuleWins ==
    returned =>
        /\ \A k \in DOMAIN DeclaredKinds :
             (Matches(DeclaredKinds[k])
                 /\ \A j \in 1..(k - 1) : ~Matches(DeclaredKinds[j])) =>
                 LET m == Search(DeclaredKinds[k], message)
                 IN  /\ result.kind = Some(DeclaredKinds[k])
                     /\ result.value
                          = Some(float(Some(SubSeq(message, m.from, m.to))).val)
                     /\ \A g \in DOMAIN m.groups :
                          (g % 2 = 0 /\ m.groups[g] # None) =>
                              result.value # Some(float(m.groups[g]).val)
        /\ message = <<"1", "m", "m", "2", "C">> =>
             result = [kind |-> Some("Rainfall"),
                       value |-> Some([num |-> 1, exp |-> 0]), err |-> ""]
        /\ message = <<"1", ".", "2", "C">> =>
             result = [kind |-> Some("Temperature"),
                       value |-> Some([num |-> 12, exp |-> 1]), err |-> ""]

C6_Witness ==
    /\ returned
    /\ Matches("Rainfall")
    /\ Matches("Temperature")
    /\ result.kind = Some("Rainfall")
    /\ result.value = Some(float(Search("Rainfall", message).groups[1]).val)
    /\ result.value # Some(float(Search("Temperature", message).groups[1]).val)

C8_SignedValue ==
    (returned /\ result.kind # None) =>
        LET m == Search(result.kind[1], message)
            unsigned == IF message[m.from] = "-" THEN m.from + 1 ELSE m.from
            magnitude == float(Some(SubSeq(message, unsigned, m.to))).val
        IN  (message[m.from] = "-" \/ (m.from > 1 /\ message[m.from - 1] = "-")) =>
                /\ result.value[1].num < 0
                /\ result.value[1] = [magnitude EXCEPT !.num = -magnitude.num]

====
